---- MODULE Spec2Model ----
(***************************************************************************)
(* Model of the Revolut statement converter (src/main.py) and of its rate  *)
(* client (src/exchange_rate_client.py).                                   *)
(*                                                                         *)
(* Representation.  A Python str is a tuple of one-character strings, so   *)
(* that upper(), strptime() and strftime() are computed character by       *)
(* character.  A float is an integer number of hundredths (rates, amounts  *)
(* read from the CSV) or of ten-thousandths (an amount times a rate).      *)
(***************************************************************************)
EXTENDS Integers, Sequences, FiniteSets, TLC

VARIABLES
    cache,      \* lru_cache of get_exchange_rate_to_gbp: entries, least recently used first
    lastCall,   \* what the latest call of get_exchange_rate_to_gbp did
    prevCall,   \* what the call before it did, as the library client saw it (SpecResolver)
    ncalls,     \* calls made by the library client (SpecResolver)
    fillIdx,    \* distinct sweep keys resolved so far (SpecFill)
    pc,         \* position of process_revolut_csv
    columns,    \* df.columns after read_csv
    df,         \* rows read by read_csv
    df_filtered,\* rows after column filter, to_datetime and sort_values
    idx,        \* next row DataFrame.apply hands to calculate_gbp_amount
    amount_gbp, \* the "Amount GBP" column built so far
    warnings,   \* warnings printed to stderr by calculate_gbp_amount
    lookups,    \* calls of get_exchange_rate_to_gbp made by calculate_gbp_amount
    output,     \* rows written by to_csv
    error       \* error printed before sys.exit(1)

vars == <<cache, lastCall, prevCall, ncalls, fillIdx, pc, columns, df, df_filtered, idx,
          amount_gbp, warnings, lookups, output, error>>

batchVars == <<pc, columns, df, df_filtered, idx, amount_gbp, warnings, lookups,
               output, error>>

----------------------------------------------------------------------------
(* Bounds of the model *)

MaxCalls == 3
MaxRows == 2
MaxMissing == 1
FillKeys == 130

----------------------------------------------------------------------------
(* Strings *)

LowerLetters == <<"a","b","c","d","e","f","g","h","i","j","k","l","m",
                  "n","o","p","q","r","s","t","u","v","w","x","y","z">>
UpperLetters == <<"A","B","C","D","E","F","G","H","I","J","K","L","M",
                  "N","O","P","Q","R","S","T","U","V","W","X","Y","Z">>

UpperChar(c) ==
    IF \E i \in DOMAIN LowerLetters : LowerLetters[i] = c
    THEN UpperLetters[CHOOSE i \in DOMAIN LowerLetters : LowerLetters[i] = c]
    ELSE c

\* str.upper()
Upper(s) == [i \in DOMAIN s |-> UpperChar(s[i])]

DigitChars == <<"0","1","2","3","4","5","6","7","8","9">>

IsDigit(c) == c \in {"0","1","2","3","4","5","6","7","8","9"}

DigitVal(c) == (CHOOSE i \in DOMAIN DigitChars : DigitChars[i] = c) - 1

DigitChar(n) == DigitChars[n + 1]

GBP == <<"G","B","P">>
USD == <<"U","S","D">>
EUR == <<"E","U","R">>

----------------------------------------------------------------------------
(* Calendar: datetime.date's range check *)

IsLeap(y) == y % 4 = 0 /\ (y % 100 # 0 \/ y % 400 = 0)

DaysInMonth(y, m) ==
    IF m = 2 THEN (IF IsLeap(y) THEN 29 ELSE 28)
    ELSE IF m \in {4, 6, 9, 11} THEN 30 ELSE 31

IsCalendarDate(y, m, d) ==
    /\ y >= 1
    /\ m \in 1..12
    /\ d >= 1 /\ d <= DaysInMonth(y, m)

----------------------------------------------------------------------------
(* datetime.strptime(date_str, "%Y-%m-%d") *)

At(s, i) == IF i \in DOMAIN s THEN s[i] ELSE "<end>"

\* %Y is \d\d\d\d
YearMatches(s) == \A i \in 1..4 : IsDigit(At(s, i))

\* %m is 1[0-2]|0[1-9]|[1-9]: the length matched at i, 0 when none matches
\* so that a "-" follows
MonthLen(s, i) ==
    IF /\ \/ (At(s, i) = "1" /\ At(s, i + 1) \in {"0", "1", "2"})
          \/ (At(s, i) = "0" /\ IsDigit(At(s, i + 1)) /\ At(s, i + 1) # "0")
       /\ At(s, i + 2) = "-"
    THEN 2
    ELSE IF IsDigit(At(s, i)) /\ At(s, i) # "0" /\ At(s, i + 1) = "-"
    THEN 1
    ELSE 0

\* %d is 3[0-1]|[1-2]\d|0[1-9]|[1-9]| [1-9]: the first alternative that
\* matches at i decides the length, 0 when none does
DayLen(s, i) ==
    IF \/ (At(s, i) = "3" /\ At(s, i + 1) \in {"0", "1"})
       \/ (At(s, i) \in {"1", "2"} /\ IsDigit(At(s, i + 1)))
       \/ (At(s, i) = "0" /\ IsDigit(At(s, i + 1)) /\ At(s, i + 1) # "0")
    THEN 2
    ELSE IF IsDigit(At(s, i)) /\ At(s, i) # "0"
    THEN 1
    ELSE IF At(s, i) = " " /\ IsDigit(At(s, i + 1)) /\ At(s, i + 1) # "0"
    THEN 2
    ELSE 0

\* value of the digits of s in i..j, a blank counting as nothing
NumAt(s, i, j) ==
    LET v(k) == IF IsDigit(At(s, k)) THEN DigitVal(s[k]) ELSE 0
    IN  IF j = i THEN v(i)
        ELSE IF j = i + 1 THEN 10 * v(i) + v(j)
        ELSE 1000 * v(i) + 100 * v(i + 1) + 10 * v(i + 2) + v(i + 3)

\* TRUE when strptime returns, FALSE when it raises ValueError: the pattern
\* does not match, data remains after the match, or the date is out of range
StrptimeOk(s) ==
    /\ YearMatches(s)
    /\ At(s, 5) = "-"
    /\ MonthLen(s, 6) > 0
    /\ LET ml == MonthLen(s, 6)
           ds == 6 + ml + 1
           dl == DayLen(s, ds)
       IN  /\ dl > 0
           /\ Len(s) = ds + dl - 1
           /\ IsCalendarDate(NumAt(s, 1, 4), NumAt(s, 6, 6 + ml - 1),
                             NumAt(s, ds, ds + dl - 1))

----------------------------------------------------------------------------
(* Timestamp.strftime("%Y-%m-%d") of a date [y, m, d] *)

strftime(t) ==
    << DigitChar(t.y \div 1000), DigitChar((t.y \div 100) % 10),
       DigitChar((t.y \div 10) % 10), DigitChar(t.y % 10), "-",
       DigitChar(t.m \div 10), DigitChar(t.m % 10), "-",
       DigitChar(t.d \div 10), DigitChar(t.d % 10) >>

----------------------------------------------------------------------------
(* The external rate source: what one urlopen of the Frankfurter API can do *)

\* rates.GBP of a response, in hundredths
Rates == {79, 80}

\* 1.0, in hundredths
GbpToGbp == 100

ErrorOutcomes == {"no_gbp", "http_404", "http_error", "url_error", "bad_json", "other"}

Outcomes ==
    {[kind |-> "ok", rate |-> r] : r \in Rates}
        \cup {[kind |-> k, rate |-> 0] : k \in ErrorOutcomes}

NoUrl == <<>>

Returned(v, requested, url) ==
    [ok |-> TRUE, value |-> v, err |-> "none", requested |-> requested, url |-> url]

Raised(e, requested, url) ==
    [ok |-> FALSE, value |-> 0, err |-> e, requested |-> requested, url |-> url]

\* the message of the ExchangeRateError each outcome ends in.  The "No GBP
\* rate found" error is raised inside the try block and caught again by
\* "except Exception", which re-raises it as an unexpected error.
ErrorOf(kind) ==
    CASE kind = "http_404"   -> "no_data_for_date"
      [] kind = "http_error" -> "http_error"
      [] kind = "url_error"  -> "network_error"
      [] kind = "bad_json"   -> "invalid_json"
      [] kind = "no_gbp"     -> "unexpected_error"
      [] OTHER               -> "unexpected_error"

IsGbpExact(currency) == currency = GBP

\* currency.upper() == "GBP"
IsGbp(currency) == Upper(currency) = GBP

\* the function under the decorator, given what the source would answer
get_exchange_rate_to_gbp_wrapped(currency, date_str, outcome) ==
    IF ~StrptimeOk(date_str)
    THEN Raised("invalid_date", FALSE, NoUrl)
    ELSE IF IsGbp(currency)
    THEN Returned(GbpToGbp, FALSE, NoUrl)
    ELSE LET url == <<date_str, Upper(currency)>>
         IN  IF outcome.kind = "ok"
             THEN Returned(outcome.rate, TRUE, url)
             ELSE Raised(ErrorOf(outcome.kind), TRUE, url)

----------------------------------------------------------------------------
(* functools.lru_cache(maxsize=128) *)

maxsize == 128

CacheKey(currency, date_str) == <<currency, date_str>>

CacheIndex(c, key) ==
    IF \E i \in DOMAIN c : c[i].key = key
    THEN CHOOSE i \in DOMAIN c : c[i].key = key
    ELSE 0

CacheKeys(c) == {c[i].key : i \in DOMAIN c}

Without(c, i) == [j \in 1..(Len(c) - 1) |-> IF j < i THEN c[j] ELSE c[j + 1]]

\* a hit makes the entry the most recently used one
lru_touch(c, i) == Append(Without(c, i), c[i])

lru_store_never(c, key, value) == c

lru_store_evict_always(c, key, value) ==
    Append(IF Len(c) >= 1 THEN Tail(c) ELSE c, [key |-> key, value |-> value])

\* a result is stored as the most recently used entry; a full cache first
\* drops its least recently used entry
lru_store(c, key, value) ==
    Append(IF Len(c) >= maxsize THEN Tail(c) ELSE c, [key |-> key, value |-> value])

lru_on_exception_stored(c, key) == Append(c, [key |-> key, value |-> 0])

\* an exception of the wrapped function passes through: nothing is stored
lru_on_exception(c, key) == c

\* the decorated function: [cache: the cache after the call, res: its result]
get_exchange_rate_to_gbp(c, currency, date_str, outcome) ==
    LET key == CacheKey(currency, date_str)
        i   == CacheIndex(c, key)
    IN  IF i > 0
        THEN [cache |-> lru_touch(c, i), hit |-> TRUE,
              res |-> Returned(c[i].value, FALSE, NoUrl)]
        ELSE LET r == get_exchange_rate_to_gbp_wrapped(currency, date_str, outcome)
             IN  [cache |-> IF r.ok THEN lru_store(c, key, r.value)
                            ELSE lru_on_exception(c, key),
                  hit |-> FALSE, res |-> r]

CallRecord(currency, date_str, call) ==
    [key |-> CacheKey(currency, date_str), hit |-> call.hit, ok |-> call.res.ok,
     value |-> call.res.value, err |-> call.res.err,
     requested |-> call.res.requested, url |-> call.res.url]

NoCall ==
    [key |-> <<>>, hit |-> FALSE, ok |-> FALSE, value |-> 0, err |-> "none",
     requested |-> FALSE, url |-> NoUrl]

----------------------------------------------------------------------------
(* A client of the rate function calling it with arbitrary arguments *)

Currencies == {GBP, <<"g","b","p">>, <<"G","b","p">>, USD}

DateStrs ==
    { <<"2","0","2","5","-","0","1","-","1","5">>,
      <<"2","0","2","5","-","1","-","5">>,
      <<"2","0","2","5","-","0","2","-","2","9">>,
      <<"2","0","2","5","-","1","3","-","0","1">>,
      <<"2","0","2","5","-","0","1","-","1","5","x">>,
      <<"1","5","/","0","1","/","2","0","2","5">> }

\* the source answers only a call that reaches urlopen
AnOutcome == CHOOSE o \in Outcomes : TRUE

OutcomesFor(c, currency, date_str) ==
    IF get_exchange_rate_to_gbp(c, currency, date_str, AnOutcome).res.requested
    THEN Outcomes
    ELSE {AnOutcome}

Resolve(currency, date_str, outcome) ==
    /\ ncalls < MaxCalls
    /\ \E call \in {get_exchange_rate_to_gbp(cache, currency, date_str, outcome)} :
           /\ cache' = call.cache
           /\ lastCall' = CallRecord(currency, date_str, call)
    /\ prevCall' = lastCall
    /\ ncalls' = ncalls + 1
    /\ UNCHANGED <<fillIdx, batchVars>>

ResolveAny ==
    \E currency \in Currencies, date_str \in DateStrs :
        \E outcome \in OutcomesFor(cache, currency, date_str) :
            Resolve(currency, date_str, outcome)

----------------------------------------------------------------------------
(* A client sweeping more distinct keys than the cache holds *)

\* the n-th day of 2025
RECURSIVE DayOfYear(_, _)
DayOfYear(n, m) ==
    IF n <= DaysInMonth(2025, m)
    THEN [y |-> 2025, m |-> m, d |-> n]
    ELSE DayOfYear(n - DaysInMonth(2025, m), m + 1)

\* the n-th key of the sweep: USD on the n-th day of 2025
SweepDate(n) == strftime(DayOfYear(n, 1))

\* the source answers a swept day with the day's one rate; the first key,
\* the one that is asked again, with any rate; either may fail
SweepOutcomes(n) ==
    {[kind |-> "ok", rate |-> r] : r \in (IF n = 1 THEN Rates ELSE {79})}
        \cup {[kind |-> "url_error", rate |-> 0]}

CallFrom(currency, date_str, outcome) ==
    \E call \in {get_exchange_rate_to_gbp(cache, currency, date_str, outcome)} :
        /\ cache' = call.cache
        /\ lastCall' = CallRecord(currency, date_str, call)

\* resolve the next key of the sweep; a failed key is asked again
SweepNext ==
    /\ fillIdx < FillKeys
    /\ \E outcome \in SweepOutcomes(fillIdx + 1) :
        /\ CallFrom(USD, SweepDate(fillIdx + 1), outcome)
        /\ fillIdx' = IF lastCall'.ok THEN fillIdx + 1 ELSE fillIdx
    /\ UNCHANGED <<prevCall, ncalls, batchVars>>

\* come back to the first key of the sweep
SweepFirstAgain ==
    /\ fillIdx >= 1
    /\ \E outcome \in SweepOutcomes(1) : CallFrom(USD, SweepDate(1), outcome)
    /\ UNCHANGED <<fillIdx, prevCall, ncalls, batchVars>>

----------------------------------------------------------------------------
(* src/main.py *)

COLUMNS_TO_KEEP ==
    <<"Date completed (UTC)", "Description", "Orig currency", "Orig amount",
      "Amount", "Balance">>

Range(f) == {f[i] : i \in DOMAIN f}

Abs(x) == IF x < 0 THEN -x ELSE x

gbp_amount_strict_sign(orig_amount, amount) ==
    IF amount > 0 THEN 100 * Abs(orig_amount) ELSE -(100 * Abs(orig_amount))

\* Case 1, lines 52-55: abs(orig_amount) with the sign of amount
gbp_amount(orig_amount, amount) ==
    IF amount >= 0 THEN 100 * Abs(orig_amount) ELSE -(100 * Abs(orig_amount))

on_exchange_rate_error_reraised(date_str, err) ==
    [raised |-> TRUE, value |-> 0, warnings |-> <<>>]

\* lines 64-67: the except clause
on_exchange_rate_error(date_str, err) ==
    [raised |-> FALSE, value |-> 0, warnings |-> <<[date |-> date_str, err |-> err]>>]

lookup_args_own_currency(row) ==
    [currency |-> row["Orig currency"], date_str |-> strftime(row["Date completed (UTC)"])]

\* lines 61-62: the arguments of the rate lookup
lookup_args(row) ==
    [currency |-> USD, date_str |-> strftime(row["Date completed (UTC)"])]

\* [raised, value, warnings: what the call returns or raises and prints,
\*  cache: the rate cache after it, calls: the rate lookups it made]
calculate_gbp_amount(row, c, outcome) ==
    IF row["Orig currency"] = GBP
    THEN [raised |-> FALSE, value |-> gbp_amount(row["Orig amount"], row["Amount"]),
          warnings |-> <<>>, cache |-> c, calls |-> <<>>]
    ELSE LET a    == lookup_args(row)
             call == get_exchange_rate_to_gbp(c, a.currency, a.date_str, outcome)
             rec  == CallRecord(a.currency, a.date_str, call)
         IN  IF call.res.ok
             THEN [raised |-> FALSE, value |-> row["Amount"] * call.res.value,
                   warnings |-> <<>>, cache |-> call.cache, calls |-> <<rec>>]
             ELSE LET h == on_exchange_rate_error(a.date_str, call.res.err)
                  IN  [raised |-> h.raised, value |-> h.value, warnings |-> h.warnings,
                       cache |-> call.cache, calls |-> <<rec>>]

missing_columns_none(cols) == <<>>

\* line 84
missing_columns(cols) == SelectSeq(COLUMNS_TO_KEEP, LAMBDA col : col \notin cols)

\* line 91: df[COLUMNS_TO_KEEP]
Filtered(rows) ==
    [i \in DOMAIN rows |-> [col \in Range(COLUMNS_TO_KEEP) |-> rows[i][col]]]

DateLeq(s, t) ==
    \/ s.y < t.y
    \/ s.y = t.y /\ s.m < t.m
    \/ s.y = t.y /\ s.m = t.m /\ s.d <= t.d

Orders(n) ==
    {p \in [1..n -> 1..n] : \A i, j \in 1..n : p[i] = p[j] => i = j}

\* line 97: sort_values(ascending=True) with the default kind="quicksort",
\* which pandas documents as not stable: every ascending order of the rows
\* is a possible result, whatever the order of rows with equal dates
sort_values(rows) ==
    { [i \in DOMAIN rows |-> rows[p[i]]] : p \in
        { q \in Orders(Len(rows)) :
            \A i, j \in DOMAIN rows :
                i < j => DateLeq(rows[q[i]]["Date completed (UTC)"],
                                 rows[q[j]]["Date completed (UTC)"]) } }

\* round(2) of a value in ten-thousandths, in hundredths, half to even
Round2(x) ==
    LET q == x \div 100
        r == x % 100
    IN  IF r < 50 THEN q
        ELSE IF r > 50 THEN q + 1
        ELSE IF q % 2 = 0 THEN q ELSE q + 1

\* lines 104-113: the rounded output columns
OutputRows(rows, gbp) ==
    [i \in DOMAIN rows |->
        [date        |-> rows[i]["Date completed (UTC)"],
         description |-> rows[i]["Description"],
         amount      |-> Round2(100 * rows[i]["Amount"]),
         balance     |-> Round2(100 * rows[i]["Balance"]),
         amount_gbp  |-> Round2(gbp[i])]]

NoError == [kind |-> "none", detail |-> <<>>]

(* The CSV files read *)

Dates == {[y |-> 2025, m |-> 1, d |-> 15], [y |-> 2025, m |-> 2, d |-> 3]}

\* the rows a file can hold, without the description
RowPool ==
    {[date |-> t, cur |-> GBP, orig |-> o, amt |-> a] :
        t \in Dates, o \in {-5000, 5000}, a \in {-1001, 0, 1001}}
    \cup {[date |-> t, cur |-> USD, orig |-> 1001, amt |-> 1001] : t \in Dates}
    \cup {[date |-> t, cur |-> EUR, orig |-> -950, amt |-> -1001] : t \in Dates}

AllColumns == Range(COLUMNS_TO_KEEP) \cup {"Type"}

\* the i-th row of a file; its description is its place in the file
CsvRow(i, r) ==
    [col \in AllColumns |->
        CASE col = "Date completed (UTC)" -> r.date
          [] col = "Description"          -> i
          [] col = "Orig currency"        -> r.cur
          [] col = "Orig amount"          -> r.orig
          [] col = "Amount"               -> r.amt
          [] col = "Balance"              -> 12345
          [] OTHER                        -> "CARD_PAYMENT"]

\* line 81: read_csv returns the file's columns and rows
ReadCsv ==
    /\ pc = "start"
    /\ \E n \in 1..MaxRows :
       \E rows \in [1..n -> RowPool] :
       \E dropped \in {d \in SUBSET Range(COLUMNS_TO_KEEP) : Cardinality(d) <= MaxMissing} :
            /\ columns' = AllColumns \ dropped
            /\ df' = [i \in 1..n |-> [col \in AllColumns \ dropped |-> CsvRow(i, rows[i])[col]]]
    /\ pc' = "read"
    /\ UNCHANGED <<cache, lastCall, prevCall, ncalls, fillIdx, df_filtered, idx,
                   amount_gbp, warnings, lookups, output, error>>

\* lines 123-128: read_csv raises
ReadCsvFails ==
    /\ pc = "start"
    /\ \E e \in {"FileNotFoundError", "EmptyDataError"} :
            error' = [kind |-> e, detail |-> <<>>]
    /\ pc' = "exited"
    /\ UNCHANGED <<cache, lastCall, prevCall, ncalls, fillIdx, columns, df, df_filtered,
                   idx, amount_gbp, warnings, lookups, output>>

\* lines 84-88: sys.exit(1) raises SystemExit, which "except Exception"
\* does not catch
MissingColumnsExit ==
    /\ pc = "read"
    /\ missing_columns(columns) # <<>>
    /\ error' = [kind |-> "missing_columns", detail |-> missing_columns(columns)]
    /\ pc' = "exited"
    /\ UNCHANGED <<cache, lastCall, prevCall, ncalls, fillIdx, columns, df, df_filtered,
                   idx, amount_gbp, warnings, lookups, output>>

\* lines 91-97; df[COLUMNS_TO_KEEP] raises KeyError on a column that is not
\* there, which "except Exception" turns into exit
FilterAndSort ==
    /\ pc = "read"
    /\ missing_columns(columns) = <<>>
    /\ IF Range(COLUMNS_TO_KEEP) \subseteq columns
       THEN /\ \E sorted \in sort_values(Filtered(df)) : df_filtered' = sorted
            /\ idx' = 1
            /\ pc' = "apply"
            /\ UNCHANGED error
       ELSE /\ error' = [kind |-> "processing_error", detail |-> <<"KeyError">>]
            /\ pc' = "exited"
            /\ UNCHANGED <<df_filtered, idx>>
    /\ UNCHANGED <<cache, lastCall, prevCall, ncalls, fillIdx, columns, df,
                   amount_gbp, warnings, lookups, output>>

\* line 101: apply calls calculate_gbp_amount on the next row; an exception
\* it lets out reaches "except Exception"
ApplyRow ==
    /\ pc = "apply"
    /\ idx <= Len(df_filtered)
    /\ \E outcome \in
            (IF calculate_gbp_amount(df_filtered[idx], cache, AnOutcome).calls # <<>>
                /\ calculate_gbp_amount(df_filtered[idx], cache, AnOutcome).calls[1].requested
             THEN Outcomes ELSE {AnOutcome}) :
       \E r \in {calculate_gbp_amount(df_filtered[idx], cache, outcome)} :
            /\ cache' = r.cache
            /\ lookups' = lookups \o [k \in DOMAIN r.calls |->
                                        [row |-> idx, call |-> r.calls[k]]]
            /\ lastCall' = IF r.calls = <<>> THEN lastCall ELSE r.calls[1]
            /\ warnings' = warnings \o r.warnings
            /\ IF r.raised
               THEN /\ error' = [kind |-> "processing_error",
                                 detail |-> <<"ExchangeRateError">>]
                    /\ pc' = "exited"
                    /\ UNCHANGED <<amount_gbp, idx>>
               ELSE /\ amount_gbp' = Append(amount_gbp, r.value)
                    /\ idx' = idx + 1
                    /\ UNCHANGED <<error, pc>>
    /\ UNCHANGED <<prevCall, ncalls, fillIdx, columns, df, df_filtered, output>>

\* lines 104-121
WriteOutput ==
    /\ pc = "apply"
    /\ idx > Len(df_filtered)
    /\ output' = OutputRows(df_filtered, amount_gbp)
    /\ pc' = "done"
    /\ UNCHANGED <<cache, lastCall, prevCall, ncalls, fillIdx, columns, df, df_filtered,
                   idx, amount_gbp, warnings, lookups, error>>

\* line 118 raises (the file cannot be written): lines 129-131
WriteFails ==
    /\ pc = "apply"
    /\ idx > Len(df_filtered)
    /\ error' = [kind |-> "processing_error", detail |-> <<"OSError">>]
    /\ pc' = "exited"
    /\ UNCHANGED <<cache, lastCall, prevCall, ncalls, fillIdx, columns, df, df_filtered,
                   idx, amount_gbp, warnings, lookups, output>>

----------------------------------------------------------------------------
Init ==
    /\ cache = <<>>
    /\ lastCall = NoCall
    /\ prevCall = NoCall
    /\ ncalls = 0
    /\ fillIdx = 0
    /\ pc = "start"
    /\ columns = {}
    /\ df = <<>>
    /\ df_filtered = <<>>
    /\ idx = 0
    /\ amount_gbp = <<>>
    /\ warnings = <<>>
    /\ lookups = <<>>
    /\ output = <<>>
    /\ error = NoError

\* process_revolut_csv, one run of the program
Next ==
    \/ ReadCsv
    \/ ReadCsvFails
    \/ MissingColumnsExit
    \/ FilterAndSort
    \/ ApplyRow
    \/ WriteOutput
    \/ WriteFails

Spec == Init /\ [][Next]_vars

\* get_exchange_rate_to_gbp called with arbitrary arguments
NextResolver == ResolveAny

SpecResolver == Init /\ [][NextResolver]_vars

\* get_exchange_rate_to_gbp called for more keys than the cache holds
NextFill ==
    \/ SweepNext
    \/ SweepFirstAgain

SpecFill == Init /\ [][NextFill]_vars

----------------------------------------------------------------------------
(* Properties of calculate_gbp_amount and process_revolut_csv, under Spec *)

Converted == 1..Len(amount_gbp)

LookupsOf(i) == {k \in DOMAIN lookups : lookups[k].row = i}

RowFailed(i) == \E k \in LookupsOf(i) : ~lookups[k].call.ok

RowDate(i) == df_filtered[i]["Date completed (UTC)"]

SignOf(a) == IF a >= 0 THEN 1 ELSE -1

\* the value of a row whose lookup, if any, succeeded (in ten-thousandths)
NormalValue(i) ==
    IF df_filtered[i]["Orig currency"] = GBP
    THEN SignOf(df_filtered[i]["Amount"]) * 100 * Abs(df_filtered[i]["Orig amount"])
    ELSE df_filtered[i]["Amount"] * lookups[CHOOSE k \in LookupsOf(i) : TRUE].call.value

\* C1: whatever lookups fail, a row whose rate lookup failed gets Amount GBP 0.0
\* and one warning naming its date, every other row gets its normally computed
\* value, no ExchangeRateError ends the run, and every row read is written.
C1_FailedLookupDegradesRowOnly ==
    /\ \A i \in Converted :
        IF RowFailed(i)
        THEN /\ amount_gbp[i] = 0
             /\ \E w \in DOMAIN warnings : warnings[w].date = strftime(RowDate(i))
        ELSE amount_gbp[i] = NormalValue(i)
    /\ Len(warnings) = Cardinality({i \in Converted : RowFailed(i)})
    /\ error.detail # <<"ExchangeRateError">>
    /\ pc = "apply" => Len(amount_gbp) = idx - 1
    /\ pc = "done" =>
        /\ Len(output) = Len(df)
        /\ \A i \in DOMAIN output : output[i].amount_gbp = Round2(amount_gbp[i])

\* a finished run in which one row's lookup failed and another row's succeeded
C1_Witness ==
    /\ pc = "done"
    /\ \E i, j \in DOMAIN output :
        /\ RowFailed(i) /\ output[i].amount_gbp = 0
        /\ LookupsOf(j) # {} /\ ~RowFailed(j) /\ output[j].amount_gbp # 0

\* C2: a row with Orig currency "GBP" gets sign(Amount) * abs(Orig amount), the
\* sign being +1 for Amount >= 0 (so also for Amount = 0) and -1 otherwise,
\* whatever the sign of Orig amount, and no rate lookup is made for it.
C2_GbpRowUsesSignOfAmount ==
    \A i \in Converted :
        df_filtered[i]["Orig currency"] = GBP =>
            /\ amount_gbp[i] =
                SignOf(df_filtered[i]["Amount"]) * 100 * Abs(df_filtered[i]["Orig amount"])
            /\ LookupsOf(i) = {}

\* a GBP row with Amount = 0 and a negative Orig amount came out positive
C2_Witness ==
    \E i \in Converted :
        /\ df_filtered[i]["Orig currency"] = GBP
        /\ df_filtered[i]["Amount"] = 0
        /\ df_filtered[i]["Orig amount"] < 0
        /\ amount_gbp[i] > 0

\* C3: a row whose Orig currency is not "GBP" makes exactly one rate lookup, for
\* currency "USD" on the row's completed date and never for its own currency,
\* and when the lookup succeeds its value is Amount times that rate.
C3_NonGbpRowLooksUpUsd ==
    \A i \in Converted :
        df_filtered[i]["Orig currency"] # GBP =>
            \E k \in DOMAIN lookups :
                /\ LookupsOf(i) = {k}
                /\ lookups[k].call.key = <<USD, strftime(RowDate(i))>>
                /\ lookups[k].call.requested =>
                        lookups[k].call.url = <<strftime(RowDate(i)), USD>>
                /\ lookups[k].call.ok =>
                        amount_gbp[i] = df_filtered[i]["Amount"] * lookups[k].call.value

\* a EUR row converted with the USD rate of its date
C3_Witness ==
    \E i \in Converted :
        /\ df_filtered[i]["Orig currency"] = EUR
        /\ \E k \in LookupsOf(i) :
            /\ lookups[k].call.ok
            /\ lookups[k].call.requested
            /\ lookups[k].call.url[2] = USD
            /\ amount_gbp[i] = -1001 * lookups[k].call.value

\* the rows written, by description (the place each had in the file)
Written(i) == output[i].description

\* C9: the rows written are a permutation of the rows read, in ascending order
\* of completed date, and rows with the same completed date keep the relative
\* order they had in the input.
C9_OutputSortedStable ==
    pc = "done" =>
        /\ Len(output) = Len(df)
        /\ {Written(i) : i \in DOMAIN output} = DOMAIN df
        /\ \A i, j \in DOMAIN output :
            i < j =>
                /\ DateLeq(output[i].date, output[j].date)
                /\ output[i].date = output[j].date => Written(i) < Written(j)

\* the part of C9 that does not depend on the sorting algorithm: a permutation
\* in ascending order of completed date
SortedPermutation ==
    pc = "done" =>
        /\ Len(output) = Len(df)
        /\ {Written(i) : i \in DOMAIN output} = DOMAIN df
        /\ \A i, j \in DOMAIN output : i < j => DateLeq(output[i].date, output[j].date)

RequiredColumns ==
    {"Date completed (UTC)", "Description", "Orig currency", "Orig amount",
     "Amount", "Balance"}

\* C10: when a required column is missing from the file read, the run ends with
\* the error naming exactly the missing columns, and no row has been converted,
\* no rate looked up or requested, and nothing written.
C10_MissingColumnStopsBeforeRows ==
    (pc \notin {"start", "read"} /\ RequiredColumns \ columns # {} /\ error.kind # "FileNotFoundError"
        /\ error.kind # "EmptyDataError") =>
        /\ pc = "exited"
        /\ error.kind = "missing_columns"
        /\ Range(error.detail) = RequiredColumns \ columns
        /\ Len(error.detail) = Cardinality(RequiredColumns \ columns)
        /\ amount_gbp = <<>>
        /\ df_filtered = <<>>
        /\ warnings = <<>>
        /\ lookups = <<>>
        /\ lastCall = NoCall
        /\ cache = <<>>
        /\ output = <<>>

\* a file with rows but without its Balance column ended the run
C10_Witness ==
    /\ pc = "exited"
    /\ Len(df) > 0
    /\ "Balance" \notin columns
    /\ error = [kind |-> "missing_columns", detail |-> <<"Balance">>]

----------------------------------------------------------------------------
(* Properties of get_exchange_rate_to_gbp, under SpecResolver *)

Called == lastCall # NoCall

\* C4: when a call succeeds, the call that follows it with the same arguments
\* returns the same value and makes no external request.
C4_RepeatedCallHitsCache ==
    (prevCall.ok /\ lastCall.key = prevCall.key) =>
        /\ lastCall.ok
        /\ lastCall.value = prevCall.value
        /\ ~lastCall.requested

\* a rate fetched from the source, then returned again from the cache
C4_Witness ==
    /\ prevCall.ok /\ prevCall.requested
    /\ lastCall.key = prevCall.key
    /\ lastCall.hit /\ lastCall.value = prevCall.value

\* C6 as stated: a call that raises ExchangeRateError leaves the cache as it
\* was, and the next call for the same key issues the external request again.
C6_FailureRetriedByRequest ==
    [][ncalls' = ncalls + 1 =>
        /\ ~lastCall'.ok => cache' = cache
        /\ (Called /\ ~lastCall.ok /\ lastCall'.key = lastCall.key) => lastCall'.requested
      ]_vars

\* C6 amended: a call that raises ExchangeRateError leaves the cache as it was;
\* when the failed call had issued the external request, the next call for the
\* same key issues it again; when it failed the date check, so does the next.
C6_FailureNotCached ==
    [][ncalls' = ncalls + 1 =>
        /\ ~lastCall'.ok => cache' = cache
        /\ (Called /\ ~lastCall.ok /\ lastCall'.key = lastCall.key) =>
                /\ ~lastCall'.hit
                /\ lastCall'.requested = lastCall.requested
                /\ ~lastCall.requested => (~lastCall'.ok /\ lastCall'.err = "invalid_date")
      ]_vars

\* a lookup failed at the source, and the retry for the same key asked the
\* source again and succeeded
C6_Witness ==
    /\ ~prevCall.ok /\ prevCall.requested
    /\ lastCall.key = prevCall.key
    /\ lastCall.ok /\ lastCall.requested
    /\ \E i \in DOMAIN cache : cache[i].key = lastCall.key

GbpAnyCase == {<<g, b, p>> : g \in {"G", "g"}, b \in {"B", "b"}, p \in {"P", "p"}}

\* C7 as stated: a call with currency "GBP" in any letter case and any date
\* argument returns exactly 1.0 and makes no external request.
C7_GbpAlwaysOne ==
    (Called /\ lastCall.key[1] \in GbpAnyCase) =>
        /\ lastCall.ok
        /\ lastCall.value = GbpToGbp
        /\ ~lastCall.requested

\* C7 amended: a call with currency "GBP" in any letter case never makes an
\* external request, and returns exactly 1.0 when its date argument passes
\* the date check.
C7_GbpOneForAcceptedDate ==
    (Called /\ lastCall.key[1] \in GbpAnyCase) =>
        /\ ~lastCall.requested
        /\ StrptimeOk(lastCall.key[2]) => (lastCall.ok /\ lastCall.value = GbpToGbp)
        /\ ~StrptimeOk(lastCall.key[2]) => (~lastCall.ok /\ lastCall.err = "invalid_date")

\* a lower-case "gbp" answered 1.0 by the function itself
C7_Witness ==
    /\ lastCall.key = <<(<<"g","b","p">>), (<<"2","0","2","5","-","0","1","-","1","5">>)>>
    /\ lastCall.ok /\ ~lastCall.hit /\ ~lastCall.requested
    /\ lastCall.value = GbpToGbp

\* a date written YYYY-MM-DD: four, two and two digits, and a calendar date
IsIsoDate(s) ==
    /\ Len(s) = 10
    /\ \A i \in {1, 2, 3, 4, 6, 7, 9, 10} : IsDigit(s[i])
    /\ s[5] = "-" /\ s[8] = "-"
    /\ IsCalendarDate(NumAt(s, 1, 4), NumAt(s, 6, 7), NumAt(s, 9, 10))

\* C8: a call whose date string is not a valid YYYY-MM-DD calendar date fails
\* with the invalid-date ExchangeRateError, for any currency, and makes no
\* external request.
C8_NonIsoDateRejected ==
    (Called /\ ~IsIsoDate(lastCall.key[2])) =>
        /\ ~lastCall.ok
        /\ lastCall.err = "invalid_date"
        /\ ~lastCall.requested

\* what the date check does enforce: a string strptime rejects fails with the
\* invalid-date error before any request
RejectedDateRaises ==
    (Called /\ ~StrptimeOk(lastCall.key[2])) =>
        /\ ~lastCall.ok
        /\ lastCall.err = "invalid_date"
        /\ ~lastCall.requested

----------------------------------------------------------------------------
(* Properties of the cache, under SpecFill *)

Entries(c) == {c[i] : i \in DOMAIN c}

FirstKey == CacheKey(USD, SweepDate(1))

\* C5 as stated: an entry of the cache is never evicted or invalidated: it
\* stays, with the same value, whatever calls follow.
C5_NeverEvicted ==
    [][Entries(cache) \subseteq Entries(cache')]_vars

\* C5 amended: the cache holds at most 128 entries; an entry stays, with the
\* same value, unless it is the least recently used entry of a full cache;
\* so the first key is still cached while no more than 128 keys were resolved.
C5_EvictsOnlyLeastRecentOfFull ==
    /\ [](Len(cache) <= maxsize)
    /\ [](fillIdx \in 1..maxsize => FirstKey \in CacheKeys(cache))
    /\ [][Entries(IF Len(cache) < maxsize THEN cache ELSE Tail(cache))
                \subseteq Entries(cache')]_vars

\* more keys than the cache holds were resolved and the first key, used again
\* in between, is still cached
C5_Witness ==
    /\ fillIdx > maxsize
    /\ Len(cache) = maxsize
    /\ FirstKey \in CacheKeys(cache)

====
